---- MODULE Spec2Model ----
(***************************************************************************)
(* Model of movie-maker.py: the command create_waveform_video and the      *)
(* per-frame callback make_frame that create_waveform_animation builds.    *)
(*                                                                         *)
(* A timestamp t is the rational k / TDen seconds; the model carries the   *)
(* integer k (a tick).  Sample rates are whole numbers of samples per      *)
(* second, so t * sample_rate is the rational (k * sample_rate) / TDen.    *)
(* matplotlib.pyplot's registry of open figures is the sequence figs, the  *)
(* current figure being its last element.                                  *)
(***************************************************************************)
EXTENDS Integers, Sequences, FiniteSets

VARIABLES
    audio_file,     \* content of the audio file argument: [samples, rate]
    waveform,       \* --waveform option
    resolution,     \* --resolution option, after int(resolution)
    pc,             \* position of create_waveform_video
    audio_data,     \* samples returned by get_audio_data
    sample_rate,    \* sample rate returned by get_audio_data
    figs,           \* pyplot's open figures, each the set of artists drawn on it
    called,         \* make_frame has been called at least once
    t,              \* tick of the last make_frame call
    raised_at,      \* where the last make_frame call raised ("none" if it did not)
    center_idx,     \* locals of the last make_frame call
    start_idx,
    end_idx,
    audio_segment,
    used_placeholder, \* the last call replaced the slice by np.array([0, 0])
    frame,          \* value the last make_frame call returned
    outstanding,    \* frame requests that did not get a frame back
    stdout,         \* kinds of message printed so far
    error,          \* the step whose exception reached line 190 ("none" if none)
    rv,             \* return value of create_waveform_video
    exit_status     \* exit status of the process (-1 while it runs)

vars == <<audio_file, waveform, resolution, pc, audio_data, sample_rate, figs,
          called, t, raised_at, center_idx, start_idx, end_idx, audio_segment,
          used_placeholder, frame, outstanding, stdout, error, rv, exit_status>>

frame_vars == <<called, t, raised_at, center_idx, start_idx, end_idx,
                audio_segment, used_placeholder, frame, outstanding, figs>>

input_vars == <<audio_file, waveform, resolution>>

---------------------------------------------------------------------------
(* Bounds of the model *)

MaxLen == 4        \* longest audio signal, in samples
MaxRate == 6       \* highest sample rate, in samples per second
TDen == 3          \* ticks per second of the timestamp grid
NegTicks == 2      \* timestamps start at -NegTicks / TDen seconds
MaxTicks == 9      \* timestamps end at MaxTicks / TDen seconds
MaxOpen == 1       \* cap on the figures left open in pyplot's registry

Ticks == (0 - NegTicks)..MaxTicks

\* a signal of n samples; sample i has the value i, so that a slice tells
\* which indices it was cut from and differs from the placeholder
Ramp(n) == [i \in 1..n |-> i]

AudioFiles == {[samples |-> Ramp(n), rate |-> r] : n \in 0..MaxLen, r \in 1..MaxRate}

WaveformTypes == {"simple", "mirror", "line"}

Resolutions == {480, 720, 1080}

FailPoints == {"none", "plot", "savefig"}

---------------------------------------------------------------------------
(* Arithmetic of the windowing step *)

Max(a, b) == IF a >= b THEN a ELSE b

Min(a, b) == IF a <= b THEN a ELSE b

\* int(x) of the rational x = n / d, d > 0: truncation toward zero
PyInt(n, d) == IF n >= 0 THEN n \div d ELSE 0 - ((0 - n) \div d)

\* s[a:b] for integers a and b, as Python and numpy slice a sequence
PySlice(s, a, b) ==
    LET n  == Len(s)
        lo == IF a < 0 THEN Max(0, n + a) ELSE Min(a, n)
        hi == IF b < 0 THEN Max(0, n + b) ELSE Min(b, n)
    IN  IF hi <= lo THEN <<>> ELSE SubSeq(s, lo + 1, hi)

Placeholder == <<0, 0>>

---------------------------------------------------------------------------
(* The windowing step of make_frame, lines 46-61 *)

\* variant: the product rounded to the nearest integer (halves upward)
CenterIdx_Round(k, sr) == (2 * k * sr + TDen) \div (2 * TDen)

\* center_idx = int(t * sample_rate)
CenterIdx(k, sr) == PyInt(k * sr, TDen)

\* variant: a window of one whole second
WindowSize_Second(sr) == sr

\* window_size = int(sample_rate * 0.5)
WindowSize(sr) == PyInt(sr * 5, 10)

\* variant: the lower clamp is missing
StartIdx_NoClamp(c, ws) == c - ws \div 2

\* variant: the window ends at the center instead of being centered on it
StartIdx_Behind(c, ws) == Max(0, c - ws)

\* start_idx = max(0, center_idx - window_size//2)
StartIdx(c, ws) == Max(0, c - ws \div 2)

\* variant: the upper clamp is missing
EndIdx_NoClamp(n, s, ws) == s + ws

\* end_idx = min(len(audio_data), start_idx + window_size)
EndIdx(n, s, ws) == Min(n, s + ws)

\* variant: the check for fewer than 2 samples is missing
Segment_NoMinCheck(data, s, e) ==
    IF e <= s
    THEN [samples |-> Placeholder, placeholder |-> TRUE]
    ELSE [samples |-> PySlice(data, s, e), placeholder |-> FALSE]

\* lines 54-61: the slice, or np.array([0, 0]) when the slice is empty or
\* has fewer than 2 samples
Segment(data, s, e) ==
    LET first == IF e <= s
                 THEN [samples |-> Placeholder, placeholder |-> TRUE]
                 ELSE [samples |-> PySlice(data, s, e), placeholder |-> FALSE]
    IN  IF Len(first.samples) < 2
        THEN [samples |-> Placeholder, placeholder |-> TRUE]
        ELSE first

\* the locals of the windowing step for tick k
Window(data, sr, k) ==
    LET c  == CenterIdx(k, sr)
        ws == WindowSize(sr)
        s  == StartIdx(c, ws)
        e  == EndIdx(Len(data), s, ws)
        sg == Segment(data, s, e)
    IN  [center |-> c, size |-> ws, start |-> s, end |-> e,
         samples |-> sg.samples, placeholder |-> sg.placeholder]

---------------------------------------------------------------------------
(* The rasterizing step of make_frame, lines 63-106, over pyplot's state *)

\* variant: plt.figure() hands back the current figure when there is one
PltFigure_Reuse(fs) == IF fs = <<>> THEN <<{}>> ELSE fs

\* fig = plt.figure(...): a new, empty figure becomes the current figure
PltFigure(fs) == Append(fs, {})

\* plt.fill_between / plt.plot: an artist of the style over the samples is
\* added to the current figure
PltDraw(fs, style, samples) ==
    [fs EXCEPT ![Len(fs)] = @ \cup {<<style, samples>>}]

\* plt.savefig, Image.open, resize((resolution, resolution)), convert('RGB'),
\* np.array: the pixels are those of the current figure
RgbImg(fs, res) == [shape |-> <<res, res, 3>>, pixels |-> fs[Len(fs)]]

\* plt.close(fig): figure number i leaves the registry
PltClose(fs, i) == [j \in 1..(Len(fs) - 1) |-> IF j < i THEN fs[j] ELSE fs[j + 1]]

\* np.zeros((resolution, resolution, 3), dtype=np.uint8)
BlankFrame(res) == [shape |-> <<res, res, 3>>, pixels |-> {}]

---------------------------------------------------------------------------
(* State after the command line has been parsed, before line 130 *)

Init ==
    /\ audio_file \in AudioFiles
    /\ waveform \in WaveformTypes
    /\ resolution \in Resolutions
    /\ pc = "start"
    /\ audio_data = <<>>
    /\ sample_rate = 0
    /\ figs = <<>>
    /\ called = FALSE
    /\ t = 0
    /\ raised_at = "none"
    /\ center_idx = 0
    /\ start_idx = 0
    /\ end_idx = 0
    /\ audio_segment = <<>>
    /\ used_placeholder = FALSE
    /\ frame = BlankFrame(resolution)
    /\ outstanding = 0
    /\ stdout = {"arguments"}
    /\ error = "none"
    /\ rv = "unset"
    /\ exit_status = -1

---------------------------------------------------------------------------
(* make_frame(t), lines 43-111.  raise_at names the statement of the        *)
(* rasterizing step that raises in this call: "plot" is fill_between or    *)
(* plot (line 76, 81 or 86), "savefig" is any of lines 92-103, "none" is   *)
(* a call that raises nowhere.                                             *)

\* variant: no except clause, the exception leaves make_frame
Result_Propagate(raise_at, rgb, res) ==
    IF raise_at = "none"
    THEN [returns |-> TRUE, value |-> rgb]
    ELSE [returns |-> FALSE, value |-> rgb]

\* try: ... return rgb_img / except Exception: ... return np.zeros(...)
Result(raise_at, rgb, res) ==
    IF raise_at = "none"
    THEN [returns |-> TRUE, value |-> rgb]
    ELSE [returns |-> TRUE, value |-> BlankFrame(res)]

\* the registry when the call ends: plt.close(fig) is line 105, the last
\* statement but one of the try block
FigsAfter(raise_at, figs1, figs2, fig) ==
    CASE raise_at = "none"    -> PltClose(figs2, fig)
      [] raise_at = "plot"    -> figs1
      [] raise_at = "savefig" -> figs2

MakeFrame(k, raise_at) ==
    \E w \in {Window(audio_data, sample_rate, k)}, figs1 \in {PltFigure(figs)} :
    \E figs2 \in {IF waveform \in WaveformTypes
                  THEN PltDraw(figs1, waveform, w.samples)
                  ELSE figs1} :
    \E out \in {Result(raise_at, RgbImg(figs2, resolution), resolution)} :
        /\ called' = TRUE
        /\ t' = k
        /\ center_idx' = w.center
        /\ start_idx' = w.start
        /\ end_idx' = w.end
        /\ audio_segment' = w.samples
        /\ used_placeholder' = w.placeholder
        /\ raised_at' = raise_at
        /\ figs' = FigsAfter(raise_at, figs1, figs2, Len(figs1))
        /\ frame' = out.value
        /\ IF out.returns
           THEN /\ outstanding' = outstanding
                /\ stdout' = IF raise_at = "none" THEN stdout
                             ELSE stdout \cup {"frame_error"}
                /\ UNCHANGED <<pc, error, rv>>
           ELSE \* the exception leaves write_videofile and reaches line 190
                /\ outstanding' = outstanding + 1
                /\ stdout' = stdout \cup {"error", "traceback"}
                /\ error' = "make_frame"
                /\ rv' = "False"
                /\ pc' = "returned"

\* the duration of the audio is len(audio_data) / sample_rate seconds
WithinDuration(k) == 0 <= k /\ k * sample_rate <= Len(audio_data) * TDen

\* write_videofile asks the clip for the frames of the timestamps from 0 to
\* the duration; the model lets it ask for any of them, in any order
RequestFrame ==
    /\ pc = "writing"
    /\ \E k \in Ticks, raise_at \in FailPoints :
          /\ WithinDuration(k)
          /\ raise_at # "none" => Len(figs) < MaxOpen
          /\ MakeFrame(k, raise_at)
    /\ UNCHANGED <<input_vars, audio_data, sample_rate, exit_status>>

\* the clip of line 114 evaluates make_frame at whatever timestamp its
\* caller names, inside the duration or not
GetFrame ==
    /\ pc = "writing"
    /\ \E k \in Ticks, raise_at \in FailPoints :
          /\ raise_at # "none" => Len(figs) < MaxOpen
          /\ MakeFrame(k, raise_at)
    /\ UNCHANGED <<input_vars, audio_data, sample_rate, exit_status>>

---------------------------------------------------------------------------
(* create_waveform_video, lines 127-196, one action per call that can raise *)

\* except Exception as e: print the error, traceback.print_exc(), return False
Handler(step) ==
    /\ stdout' = stdout \cup {"error", "traceback"}
    /\ error' = step
    /\ rv' = "False"
    /\ pc' = "returned"

\* lines 139-142: get_audio_data(audio_file)
LoadAudio ==
    /\ pc = "start"
    /\ \E ok \in BOOLEAN :
          IF ok
          THEN /\ audio_data' = audio_file.samples
               /\ sample_rate' = audio_file.rate
               /\ stdout' = stdout \cup {"audio_loaded"}
               /\ pc' = "audio_loaded"
               /\ UNCHANGED <<error, rv>>
          ELSE /\ Handler("get_audio_data")
               /\ UNCHANGED <<audio_data, sample_rate>>
    /\ UNCHANGED <<input_vars, frame_vars, exit_status>>

\* one of the library calls between the audio load and the encoder
Step(from, to, name, message) ==
    /\ pc = from
    /\ \E ok \in BOOLEAN :
          IF ok
          THEN /\ stdout' = stdout \cup {message}
               /\ pc' = to
               /\ UNCHANGED <<error, rv>>
          ELSE Handler(name)
    /\ UNCHANGED <<input_vars, frame_vars, audio_data, sample_rate, exit_status>>

\* lines 145-147: AudioFileClip(audio_file), its duration
OpenAudioClip == Step("audio_loaded", "audio_clip", "AudioFileClip", "duration")

\* lines 150-154: ImageClip(image_file).set_duration(...).resize(...)
LoadImage == Step("audio_clip", "image_clip", "ImageClip", "image_prepared")

\* lines 157-161: create_waveform_animation builds make_frame and the clip
CreateAnimation ==
    Step("image_clip", "waveform_clip", "create_waveform_animation", "animation_created")

\* lines 164-177: set_opacity, CompositeVideoClip, set_audio, then the
\* encoder starts
Compose == Step("waveform_clip", "writing", "CompositeVideoClip", "composition_complete")

\* lines 178-196: write_videofile ends, with the success messages and
\* return True, or with an exception of the encoder
FinishWrite ==
    /\ pc = "writing"
    /\ \E ok \in BOOLEAN :
          IF ok
          THEN /\ stdout' = stdout \cup {"success", "elapsed"}
               /\ rv' = "True"
               /\ pc' = "returned"
               /\ UNCHANGED error
          ELSE Handler("write_videofile")
    /\ UNCHANGED <<input_vars, frame_vars, audio_data, sample_rate, exit_status>>

\* lines 198-199: the value create_waveform_video returns is not used, the
\* interpreter ends normally whatever it was
ExitStatus(ret) == 0

Exit ==
    /\ pc = "returned"
    /\ pc' = "exited"
    /\ exit_status' = ExitStatus(rv)
    /\ UNCHANGED <<input_vars, frame_vars, audio_data, sample_rate, stdout, error, rv>>

Next ==
    \/ LoadAudio
    \/ OpenAudioClip
    \/ LoadImage
    \/ CreateAnimation
    \/ Compose
    \/ RequestFrame
    \/ FinishWrite
    \/ Exit

Spec == Init /\ [][Next]_vars

---------------------------------------------------------------------------
(* make_frame as a function of any timestamp: the states                   *)
(* create_waveform_video is in once the clip exists (every earlier call    *)
(* has succeeded), and evaluations of make_frame from there.               *)

InitFrames ==
    /\ audio_file \in AudioFiles
    /\ waveform \in WaveformTypes
    /\ resolution \in Resolutions
    /\ pc = "writing"
    /\ audio_data = audio_file.samples
    /\ sample_rate = audio_file.rate
    /\ figs = <<>>
    /\ called = FALSE
    /\ t = 0
    /\ raised_at = "none"
    /\ center_idx = 0
    /\ start_idx = 0
    /\ end_idx = 0
    /\ audio_segment = <<>>
    /\ used_placeholder = FALSE
    /\ frame = BlankFrame(resolution)
    /\ outstanding = 0
    /\ stdout = {"arguments", "audio_loaded", "duration", "image_prepared",
                 "animation_created", "composition_complete"}
    /\ error = "none"
    /\ rv = "unset"
    /\ exit_status = -1

NextFrames == GetFrame

SpecFrames == InitFrames /\ [][NextFrames]_vars

---------------------------------------------------------------------------
(* Properties.  t * sample_rate is the rational (t * sample_rate) / TDen   *)
(* below, t being the tick; every comparison is multiplied through by TDen.*)

\* the signal's length, and half a second of samples
SignalLength == Len(audio_data)

HalfSecond == sample_rate \div 2

\* 0 <= t <= duration, the duration being SignalLength / sample_rate seconds
InRange == 0 <= t /\ t * sample_rate <= SignalLength * TDen

\* t is so far past the end that even the window's first sample is
\* past the end: t * sample_rate >= SignalLength + HalfSecond // 2
FarBeyond == t * sample_rate >= (SignalLength + HalfSecond \div 2) * TDen

\* C1: for every signal (empty and one-sample signals too), sample rate and
\* t in [0, duration], the window handed on has at least 2 samples, and it is
\* the placeholder [0, 0] whenever audio_data[start_idx:end_idx] has fewer
\* than 2 samples.
C1_WindowAtLeastTwo ==
    (called /\ InRange) =>
        /\ Len(audio_segment) >= 2
        /\ Len(PySlice(audio_data, start_idx, end_idx)) < 2 =>
              (used_placeholder /\ audio_segment = Placeholder)

\* a call at the last sample of a signal of 2 or more samples: the slice
\* has one sample and the placeholder replaces it
C1_Witness ==
    /\ called /\ InRange
    /\ SignalLength >= 2
    /\ Len(PySlice(audio_data, start_idx, end_idx)) = 1
    /\ used_placeholder

\* C2: when the rasterizing step raises, make_frame returns an all-zero
\* frame of shape (resolution, resolution, 3); the exception never reaches
\* the caller, so every request gets a frame and the run goes on.
C2_BlankFrameOnError ==
    /\ outstanding = 0
    /\ error # "make_frame"
    /\ (called /\ raised_at # "none") =>
          /\ frame.shape = <<resolution, resolution, 3>>
          /\ frame.pixels = {}
          /\ pc = "writing"

\* a call whose rasterizing step raised
C2_Witness ==
    /\ called /\ raised_at # "none"
    /\ "frame_error" \in stdout
    /\ frame.pixels = {}

\* C3: no figure is open between two make_frame calls, whether the calls
\* succeeded or failed.
C3_CanvasReleased == Len(figs) = 0

\* C4: after a failure of loading, decoding, composition or encoding the
\* error and a trace have been printed and the process ends with a status
\* that differs from the status of a successful run.
C4_FailureIndicated ==
    (pc = "exited" /\ error # "none") =>
        /\ {"error", "traceback"} \subseteq stdout
        /\ exit_status # ExitStatus("True")

\* C5 as claimed: for negative t and for t far beyond the duration the
\* window is the placeholder [0, 0], not a slice of the signal.
C5_OutOfRangePlaceholder ==
    (called /\ (t < 0 \/ FarBeyond)) =>
        (used_placeholder /\ audio_segment = Placeholder)

\* C5 amended: for t far beyond the duration the window is the placeholder;
\* for negative t the start clamps to 0 and the window is the one of t = 0:
\* the first min(SignalLength, window_size) samples, or the placeholder when
\* these are fewer than 2.
C5_OutOfRangeDegrades ==
    called =>
        /\ FarBeyond => (used_placeholder /\ audio_segment = Placeholder)
        /\ t < 0 =>
              /\ start_idx = 0
              /\ end_idx = Min(SignalLength, HalfSecond)
              /\ audio_segment =
                    IF Min(SignalLength, HalfSecond) >= 2
                    THEN SubSeq(audio_data, 1, Min(SignalLength, HalfSecond))
                    ELSE Placeholder

\* a negative timestamp whose window is a slice of the signal
C5_Witness ==
    /\ called /\ t < 0
    /\ ~used_placeholder
    /\ audio_segment = SubSeq(audio_data, 1, end_idx)

\* C6 as claimed: for t >= 0 the center index is t * sample_rate rounded to
\* the nearest integer, so it is at most 1/2 away from the product.
C6_CenterRounded ==
    (called /\ t >= 0) =>
        /\ 2 * (center_idx * TDen - t * sample_rate) <= TDen
        /\ 2 * (t * sample_rate - center_idx * TDen) <= TDen

\* C6 amended: for t >= 0 the center index is t * sample_rate rounded down.
C6_CenterTruncated ==
    (called /\ t >= 0) =>
        /\ center_idx * TDen <= t * sample_rate
        /\ t * sample_rate < (center_idx + 1) * TDen

\* a product whose fraction is above 1/2
C6_Witness ==
    /\ called /\ t >= 0
    /\ 2 * (t * sample_rate - center_idx * TDen) > TDen

\* C7: for t >= 0, start = max(0, center - window_length/2) (the half
\* rounded down) and end = min(signal_length, start + window_length); start
\* is 0 when t * sample_rate < window_length/2, end is signal_length when
\* start + window_length > signal_length, and 0 <= start, end <= signal_length.
C7_WindowBounds ==
    (called /\ t >= 0) =>
        /\ start_idx = Max(0, center_idx - HalfSecond \div 2)
        /\ end_idx = Min(SignalLength, start_idx + HalfSecond)
        /\ 2 * t * sample_rate < HalfSecond * TDen => start_idx = 0
        /\ start_idx + HalfSecond > SignalLength => end_idx = SignalLength
        /\ 0 <= start_idx
        /\ end_idx <= SignalLength

\* both clamps act in one call, and the window is a slice of the signal
C7_Witness ==
    /\ called /\ t >= 0
    /\ 2 * t * sample_rate < HalfSecond * TDen
    /\ center_idx - HalfSecond \div 2 < 0
    /\ start_idx = 0
    /\ start_idx + HalfSecond > SignalLength
    /\ end_idx = SignalLength
    /\ ~used_placeholder

\* C8 as claimed: the window handed on has between 2 and window_length
\* samples, window_length being int(sample_rate * 0.5).
C8_LengthWithinWindow ==
    called => (2 <= Len(audio_segment) /\ Len(audio_segment) <= HalfSecond)

\* C8 amended: the window handed on has between 2 and max(2, window_length)
\* samples; it is longer than window_length only when window_length < 2 and
\* the placeholder is used.
C8_LengthWithinWindowOrTwo ==
    called =>
        /\ 2 <= Len(audio_segment)
        /\ Len(audio_segment) <= Max(2, HalfSecond)
        /\ Len(audio_segment) > HalfSecond => (HalfSecond < 2 /\ used_placeholder)

\* a slice of the full window length, 3 samples or more
C8_Witness ==
    /\ called
    /\ ~used_placeholder
    /\ HalfSecond >= 3
    /\ Len(audio_segment) = HalfSecond

\* C9: the frame a call returns is a function of (t, signal, sample rate,
\* style, resolution) and of whether this call raised: nothing an earlier
\* call left behind enters it.
C9_FrameOfInputsOnly ==
    called =>
        frame = IF raised_at = "none"
                THEN [shape  |-> <<resolution, resolution, 3>>,
                      pixels |-> {<<waveform, Window(audio_data, sample_rate, t).samples>>}]
                ELSE BlankFrame(resolution)

\* a successful call after a failed one that left a drawn figure of another
\* window in the registry
C9_Witness ==
    /\ called /\ raised_at = "none"
    /\ "frame_error" \in stdout
    /\ Len(figs) = 1
    /\ figs[1] # {}
    /\ figs[1] # frame.pixels

\* C10: when window_length >= 2, the signal has 2 samples or more and the
\* center index c lies in the signal, the window is a slice of the signal
\* that contains the sample at c: start <= c < end.
C10_WindowContainsCenter ==
    (/\ called
     /\ HalfSecond >= 2
     /\ SignalLength >= 2
     /\ 0 <= center_idx /\ center_idx < SignalLength) =>
        /\ ~used_placeholder
        /\ start_idx <= center_idx
        /\ center_idx < end_idx
        /\ audio_segment = SubSeq(audio_data, start_idx + 1, end_idx)

\* the center is the last sample of the signal
C10_Witness ==
    /\ called
    /\ HalfSecond >= 2
    /\ SignalLength >= 3
    /\ center_idx = SignalLength - 1
    /\ ~used_placeholder
    /\ end_idx = SignalLength

====
